---- MODULE Spec2Model ----
(***************************************************************************)
(* TransformControls (nunuStudio editor): the attach / setMode / update    *)
(* state machine and the pointer-to-transform handlers, with the           *)
(* TransformGizmo base contract it drives.                                 *)
(*                                                                         *)
(* Numbers are exact integers.  Vectors are triples, rotation matrices are *)
(* 3x3 integer matrices (tuples of rows), quaternions are <<x, y, z, w>>.  *)
(* The scene of the model is chosen so that every value the handlers       *)
(* compute is an integer: rotations are half turns, parent scales are 1    *)
(* and 2, pointer rays hit the planes at points a half turn apart.         *)
(* Positions, plane points and the drag anchor are counted in halves of a  *)
(* scene unit; scales and quaternion components are whole numbers.         *)
(***************************************************************************)
EXTENDS Integers, Sequences, FiniteSets, TLC

VARIABLES
    objects,      \* this.objects: the attached objects, in order
    attributes,   \* this.attributes: one snapshot slot per index
    space,        \* this.space
    axis,         \* this.axis (Null when nothing is picked)
    mode,         \* this.mode
    dragging,     \* this.dragging
    editing,      \* this.editing
    visible,      \* this.visible
    snap,         \* this.snap
    gizmo,        \* this.gizmo: the active gizmo object
    children,     \* the gizmos among the children of the controls
    offset,       \* this.offset: the drag anchor
    scene,        \* position / scale / quaternion / body shapes of every object
    hung,         \* TRUE when a handler entered a loop it never leaves
    submitted,    \* bundles handed to Editor.addAction by the last operation
    armed,        \* history: a picker-hit pointer-down was processed, no pointer-up since
    edits,        \* history: number of pointer-downs that began an edit
    ops,          \* history: number of operations called so far
    sidebar       \* the SideBar: its four tool toggles and the tools it forwarded

vars == <<objects, attributes, space, axis, mode, dragging, editing, visible,
          snap, gizmo, children, offset, scene, hung, submitted,
          armed, edits, ops, sidebar>>

-----------------------------------------------------------------------------
(* Bounds of the model *)

\* longest list handed to attach()
MaxLen == 2
\* object coordinates stay in -MaxCoord .. MaxCoord scene units
MaxCoord == 2
\* object scale components stay in 0 .. MaxScale
MaxScale == 3
\* pointer-downs that begin an edit, over a whole run
MaxEdits == 1
\* operations (attach, clear, setMode, update) called over a whole run
MaxOps == 6
\* collision shapes of a physics body
MaxShapes == 2
\* selectTool calls on the side bar over a whole run
MaxCalls == 3

-----------------------------------------------------------------------------
(* Program constants *)

NONE == "none"
TRANSLATE == "translate"
ROTATE == "rotate"
SCALE == "scale"
\* a mode string that is none of the four constants
UNKNOWN == "unknown"
\* TransformControls.LOCAL (LOCAL is a reserved word of TLA+)
LOCAL_SPACE == "local"
WORLD == "world"
Modes == {NONE, TRANSLATE, ROTATE, SCALE, UNKNOWN}
Spaces == {LOCAL_SPACE, WORLD}

Null == "null"
\* the raycast result `false`
Miss == <<>>

TranslationSnap == 1

\* the number of model units in one scene unit of length
Unit == 2

-----------------------------------------------------------------------------
(* Vector, matrix and quaternion arithmetic (THREE.Vector3 / Matrix4 /      *)
(* Quaternion, treated as the standard 3D-math library)                     *)

Zero3 == <<0, 0, 0>>
One3 == <<1, 1, 1>>
Identity3 == <<<<1, 0, 0>>, <<0, 1, 0>>, <<0, 0, 1>>>>
IdentityQ == <<0, 0, 0, 1>>
unitX == <<1, 0, 0>>
unitY == <<0, 1, 0>>
unitZ == <<0, 0, 1>>

VAdd(a, b) == <<a[1] + b[1], a[2] + b[2], a[3] + b[3]>>
VSub(a, b) == <<a[1] - b[1], a[2] - b[2], a[3] - b[3]>>
VMulScalar(a, k) == <<a[1] * k, a[2] * k, a[3] * k>>
VMul(a, b) == <<a[1] * b[1], a[2] * b[2], a[3] * b[3]>>

\* applyMatrix4 with a pure rotation matrix
MApply(m, v) == <<m[1][1] * v[1] + m[1][2] * v[2] + m[1][3] * v[3],
                  m[2][1] * v[1] + m[2][2] * v[2] + m[2][3] * v[3],
                  m[3][1] * v[1] + m[3][2] * v[2] + m[3][3] * v[3]>>

MMul(a, b) == [i \in 1..3 |-> [j \in 1..3 |->
                 a[i][1] * b[1][j] + a[i][2] * b[2][j] + a[i][3] * b[3][j]]]

\* getInverse of a rotation matrix: its transpose
MInverse(m) == [i \in 1..3 |-> [j \in 1..3 |-> m[j][i]]]

\* Matrix4.makeRotationFromQuaternion
MFromQuat(q) ==
    LET x == q[1]  y == q[2]  z == q[3]  w == q[4] IN
    <<<<1 - 2 * (y * y + z * z), 2 * (x * y - z * w), 2 * (x * z + y * w)>>,
      <<2 * (x * y + z * w), 1 - 2 * (x * x + z * z), 2 * (y * z - x * w)>>,
      <<2 * (x * z - y * w), 2 * (y * z + x * w), 1 - 2 * (x * x + y * y)>>>>

ISqrt(n) == IF \E r \in 0..4 : r * r = n THEN CHOOSE r \in 0..4 : r * r = n ELSE 0

\* Quaternion.setFromRotationMatrix; exact for the half-turn rotations of the
\* model, <<0, 0, 0, 0>> stands for a value outside the exact domain
QFromMatrix(m) ==
    LET trace == m[1][1] + m[2][2] + m[3][3] IN
    IF trace > 0 THEN
        LET r == ISqrt(trace + 1) IN
        IF r = 0 \/ r % 2 # 0 THEN <<0, 0, 0, 0>>
        ELSE <<(m[3][2] - m[2][3]) \div (2 * r), (m[1][3] - m[3][1]) \div (2 * r),
               (m[2][1] - m[1][2]) \div (2 * r), r \div 2>>
    ELSE IF m[1][1] > m[2][2] /\ m[1][1] > m[3][3] THEN
        LET r == ISqrt(1 + m[1][1] - m[2][2] - m[3][3]) IN
        IF r = 0 \/ r % 2 # 0 THEN <<0, 0, 0, 0>>
        ELSE <<r \div 2, (m[1][2] + m[2][1]) \div (2 * r),
               (m[1][3] + m[3][1]) \div (2 * r), (m[3][2] - m[2][3]) \div (2 * r)>>
    ELSE IF m[2][2] > m[3][3] THEN
        LET r == ISqrt(1 + m[2][2] - m[1][1] - m[3][3]) IN
        IF r = 0 \/ r % 2 # 0 THEN <<0, 0, 0, 0>>
        ELSE <<(m[1][2] + m[2][1]) \div (2 * r), r \div 2,
               (m[2][3] + m[3][2]) \div (2 * r), (m[1][3] - m[3][1]) \div (2 * r)>>
    ELSE
        LET r == ISqrt(1 + m[3][3] - m[1][1] - m[2][2]) IN
        IF r = 0 \/ r % 2 # 0 THEN <<0, 0, 0, 0>>
        ELSE <<(m[1][3] + m[3][1]) \div (2 * r), (m[2][3] + m[3][2]) \div (2 * r),
               r \div 2, (m[2][1] - m[1][2]) \div (2 * r)>>

\* Quaternion.multiplyQuaternions(a, b)
QMul(a, b) ==
    <<a[1] * b[4] + a[4] * b[1] + a[2] * b[3] - a[3] * b[2],
      a[2] * b[4] + a[4] * b[2] + a[3] * b[1] - a[1] * b[3],
      a[3] * b[4] + a[4] * b[3] + a[1] * b[2] - a[2] * b[1],
      a[4] * b[4] - a[1] * b[1] - a[2] * b[2] - a[3] * b[3]>>

\* Angles are counted in eighths of a turn and carried as sets: {k} is the
\* angle of k eighths, {} an angle that is no multiple of an eighth of a turn.
\* Math.atan2(y, x)
Atan2(y, x) ==
    IF y = 0 THEN (IF x >= 0 THEN {0} ELSE {4})
    ELSE IF x = 0 THEN (IF y > 0 THEN {2} ELSE {-2})
    ELSE IF x = y THEN (IF x > 0 THEN {1} ELSE {-3})
    ELSE IF x = -y THEN (IF y > 0 THEN {3} ELSE {-1})
    ELSE {}

AngleSub(a, b) == {x - y : x \in a, y \in b}

\* Quaternion.setFromAxisAngle(axis, angle): <<axis * sin(angle/2), cos(angle/2)>>,
\* exact for whole half turns; <<0, 0, 0, 0>> otherwise
QFromAxisAngle(ax, angle) ==
    IF angle = {} \/ (\E k \in angle : k % 4 # 0) THEN <<0, 0, 0, 0>>
    ELSE LET h == (CHOOSE k \in angle : TRUE) \div 4    \* half turns
             sn == IF h % 2 = 0 THEN 0 ELSE IF h % 4 = 1 THEN 1 ELSE -1
             cs == IF h % 2 # 0 THEN 0 ELSE IF h % 4 = 0 THEN 1 ELSE -1
         IN <<ax[1] * sn, ax[2] * sn, ax[3] * sn, cs>>

\* Math.round(x / t) * t for integers x and t > 0
RoundTo(x, t) == ((2 * x + t) \div (2 * t)) * t

-----------------------------------------------------------------------------
(* The scene the editor hands to the controls.  Object 1 and 2 are          *)
(* attachable; 3 is locked, 4 is no Object3D, 5 has no parent.  Object 2 is *)
(* a PhysicsObject with one sphere shape, child of a group that is turned   *)
(* half a turn about Z and scaled by 2.  Object 6 is attachable, child of a *)
(* container that is scaled by 2 and not turned.                            *)

Objs == 1..6
isObject3D(o) == o # 4
locked(o) == o = 3
parent(o) ==
    IF o = 5 THEN Null
    ELSE IF o = 2 THEN "group"
    ELSE IF o = 6 THEN "container"
    ELSE "scene"
isPhysicsObject(o) == o = 2

RotZ180 == <<<<-1, 0, 0>>, <<0, -1, 0>>, <<0, 0, 1>>>>
\* rotation part of parent.matrixWorld
ParentRotation(p) == IF p = "group" THEN RotZ180 ELSE Identity3
\* scale part of parent.matrixWorld (uniform)
ParentWorldScale(p) == IF p \in {"group", "container"} THEN 2 ELSE 1

InitScene ==
    [o \in Objs |->
        [position |-> Zero3,
         scale |-> One3,
         quaternion |-> IdentityQ,
         shapes |-> IF isPhysicsObject(o)
                    THEN <<[type |-> "sphere", radius |-> 1]>> ELSE <<>>]]

\* object.matrix without its scale: extractRotation(object.matrix)
LocalRotation(sc, o) == MFromQuat(sc[o].quaternion)
\* extractRotation(object.matrixWorld)
WorldRotation(sc, o) == MMul(ParentRotation(parent(o)), LocalRotation(sc, o))
\* setFromMatrixPosition(object.matrixWorld); parents sit at the world origin
WorldPosition(sc, o) ==
    MApply(ParentRotation(parent(o)),
           VMulScalar(sc[o].position, ParentWorldScale(parent(o))))

\* The camera looks at the scene from far away on the +Z axis
Eye == <<0, 0, 1>>

\* Points of the constraint planes a pointer ray can hit
Points == {<<Unit, Unit, 0>>, <<-Unit, -Unit, 0>>}

-----------------------------------------------------------------------------
(* TransformControlAtttributes: a snapshot slot.  parentScale holds the     *)
(* scale of the inverse parent matrix as the fraction num / den.            *)

TransformControlAtttributes ==
    [parentRotationMatrix |-> Identity3,
     parentScale |-> [num |-> Zero3, den |-> 1],
     worldRotationMatrix |-> Identity3,
     worldPosition |-> Zero3,
     worldRotation |-> Identity3,   \* the Euler angles, as the rotation they denote
     oldPosition |-> Zero3,
     oldScale |-> Zero3,
     oldQuaternion |-> IdentityQ,
     oldRotationMatrix |-> Identity3,
     \* history: the slot was written by the pointer-down that began the
     \* current drag, and the object it was written from (Null: never written)
     fresh |-> FALSE,
     from |-> Null]

\* a vector outside the values the model keeps exact
Inexact3 == <<1000 * Unit, 1000 * Unit, 1000 * Unit>>

\* Vector3.multiply(parentScale)
MultiplyParentScale(v, ps) ==
    IF \A k \in 1..3 : (v[k] * ps.num[k]) % ps.den = 0
    THEN <<(v[1] * ps.num[1]) \div ps.den, (v[2] * ps.num[2]) \div ps.den,
           (v[3] * ps.num[3]) \div ps.den>>
    ELSE Inexact3

-----------------------------------------------------------------------------
(* TransformGizmo and its mode variants *)

PlaneNames == {"XY", "YZ", "XZ", "XYZE"}

\* names of the picker meshes of each gizmo variant; the base gizmo has none
PickerNames(type) ==
    CASE type = TRANSLATE -> {"X", "XY"}
      [] type = ROTATE -> {"Z", "E"}
      [] type = SCALE -> {"X", "XYZ"}
      [] OTHER -> {}

\* the children traverse() visits: the gizmo and its three groups (no name),
\* the four planes, the handles and the pickers
GizmoChildren(type) ==
    {<<"group", "">>}
    \cup {<<"planes", n>> : n \in PlaneNames}
    \cup {<<"handles", n>> : n \in PickerNames(type)}
    \cup {<<"pickers", n>> : n \in PickerNames(type)}

\* String.search(letter) !== -1 for the axis tokens of the model
Has(name, letter) ==
    CASE letter = "X" -> name \in {"X", "XY", "XZ", "XYZ", "XYZE"}
      [] letter = "Y" -> name \in {"Y", "XY", "YZ", "XYZ", "XYZE"}
      [] letter = "Z" -> name \in {"Z", "YZ", "XZ", "XYZ", "XYZE"}
      [] letter = "E" -> name \in {"E", "XYZE"}
      [] letter = "XYZ" -> name \in {"XYZ", "XYZE"}
      [] OTHER -> FALSE

\* String.length of an axis token
AxisLength(name) ==
    IF name \in {"X", "Y", "Z", "E"} THEN 1
    ELSE IF name \in {"XY", "YZ", "XZ"} THEN 2
    ELSE IF name = "XYZ" THEN 3 ELSE 4

\* new TransformGizmo() and the constructors of its variants.  The
\* orientation and the highlight of the children are kept as the arguments of
\* the last update(rotation, eye) and highlight(axis) call: both calls
\* overwrite what the call before them wrote.
TransformGizmo(type) ==
    [type |-> type,
     activePlane |-> "XYZE",
     updated |-> FALSE, rotation |-> Identity3, eye |-> Zero3,
     highlighted |-> FALSE, highlightAxis |-> Null]

\* TransformGizmo.prototype.update(rotation, eye)
GizmoUpdate(g, rotation, eye) ==
    [g EXCEPT !.updated = TRUE, !.rotation = rotation, !.eye = eye]

\* TransformGizmo.prototype.highlight(axis)
GizmoHighlight(g, ax) ==
    [g EXCEPT !.highlighted = TRUE, !.highlightAxis = ax]

\* update() testing the letters X, Y and Z before the letter E
ChildOrientationAxesFirst(g, name) ==
    IF ~g.updated THEN [kind |-> "rest", value |-> Identity3]
    ELSE IF Has(name, "X") \/ Has(name, "Y") \/ Has(name, "Z")
    THEN [kind |-> "euler", value |-> g.rotation]
    ELSE IF Has(name, "E") THEN [kind |-> "lookAt", value |-> g.eye]
    ELSE [kind |-> "rest", value |-> Identity3]

\* the orientation update() leaves a child named name with
ChildOrientation(g, name) ==
    IF ~g.updated THEN [kind |-> "rest", value |-> Identity3]
    ELSE IF Has(name, "E") THEN [kind |-> "lookAt", value |-> g.eye]
    ELSE IF Has(name, "X") \/ Has(name, "Y") \/ Has(name, "Z")
    THEN [kind |-> "euler", value |-> g.rotation]
    ELSE [kind |-> "rest", value |-> Identity3]

\* highlight() testing whether the axis token contains the name of the child
ChildHighlightSubstring(g, name) == g.highlighted /\ Has(g.highlightAxis, name)

\* the highlight state highlight() leaves the material of a handle or picker
\* named name in
ChildHighlight(g, name) == g.highlighted /\ name = g.highlightAxis

\* setActivePlane(axis, eye) of the variants, for the eye of the model
\* (|eye.z| largest); the base gizmo keeps its plane
SetActivePlane(g, ax, eye) ==
    IF g.type \in {TRANSLATE, SCALE} THEN
        [g EXCEPT !.activePlane =
            CASE ax \in {"X", "Y", "XY"} -> "XY"
              [] ax = "Z" -> "XZ"
              [] ax = "YZ" -> "YZ"
              [] ax = "XZ" -> "XZ"
              [] ax = "XYZ" -> "XYZE"
              [] OTHER -> g.activePlane]
    ELSE IF g.type = ROTATE THEN
        [g EXCEPT !.activePlane =
            CASE ax = "X" -> "YZ"
              [] ax = "Y" -> "XZ"
              [] ax = "Z" -> "XY"
              [] ax \in {"E", "XYZE"} -> "XYZE"
              [] OTHER -> g.activePlane]
    ELSE g

-----------------------------------------------------------------------------
(* The controls as a record, so that a handler is an operator from the      *)
(* state before it to the state after it                                    *)

St ==
    [objects |-> objects, attributes |-> attributes, space |-> space,
     axis |-> axis, mode |-> mode, dragging |-> dragging, editing |-> editing,
     visible |-> visible, snap |-> snap, gizmo |-> gizmo, children |-> children,
     offset |-> offset, scene |-> scene, hung |-> hung,
     calls |-> <<>>, submitted |-> <<>>]

Log(s, what) == [s EXCEPT !.calls = Append(@, what)]

\* clear that forgets to drop the picked axis
ClearKeepsAxis(s) ==
    [Log(s, "clear") EXCEPT !.objects = <<>>, !.visible = FALSE]

\* clear that releases the snapshot slots with the selection
ClearDropsSlots(s) ==
    [Log(s, "clear") EXCEPT !.objects = <<>>, !.visible = FALSE, !.axis = Null,
                            !.attributes = <<>>]

\* clear that leaves the controls visible
ClearStaysVisible(s) ==
    [Log(s, "clear") EXCEPT !.objects = <<>>, !.axis = Null]

\* TransformControls.prototype.clear
Clear(s) ==
    [Log(s, "clear") EXCEPT !.objects = <<>>, !.visible = FALSE, !.axis = Null]

\* updatePose taking the old position of the attached objects anew
UpdatePoseRefreshesSnapshot(s0) ==
    LET s == Log(s0, "updatePose") IN
    IF Len(s.objects) = 0 THEN Clear(s)
    ELSE IF s.mode = NONE THEN s
    ELSE
        LET n == Len(s.objects)
            attrs == [i \in 1..Len(s.attributes) |->
                        IF i <= n
                        THEN [s.attributes[i] EXCEPT
                                 !.worldPosition = WorldPosition(s.scene, s.objects[i]),
                                 !.worldRotation = WorldRotation(s.scene, s.objects[i]),
                                 !.oldPosition = s.scene[s.objects[i]].position]
                        ELSE s.attributes[i]]
            g1 == IF s.space = LOCAL_SPACE \/ s.mode = SCALE
                  THEN GizmoUpdate(s.gizmo, attrs[1].worldRotation, Eye)
                  ELSE IF s.space = WORLD
                  THEN GizmoUpdate(s.gizmo, Identity3, Eye)
                  ELSE s.gizmo
        IN [s EXCEPT !.visible = TRUE, !.attributes = attrs,
                     !.gizmo = GizmoHighlight(g1, s.axis)]

\* TransformControls.prototype.updatePose
UpdatePose(s0) ==
    LET s == Log(s0, "updatePose") IN
    IF Len(s.objects) = 0 THEN Clear(s)
    ELSE IF s.mode = NONE THEN s
    ELSE
        LET n == Len(s.objects)
            attrs == [i \in 1..Len(s.attributes) |->
                        IF i <= n
                        THEN [s.attributes[i] EXCEPT
                                 !.worldPosition = WorldPosition(s.scene, s.objects[i]),
                                 !.worldRotation = WorldRotation(s.scene, s.objects[i])]
                        ELSE s.attributes[i]]
            g1 == IF s.space = LOCAL_SPACE \/ s.mode = SCALE
                  THEN GizmoUpdate(s.gizmo, attrs[1].worldRotation, Eye)
                  ELSE IF s.space = WORLD
                  THEN GizmoUpdate(s.gizmo, Identity3, Eye)
                  ELSE s.gizmo
        IN [s EXCEPT !.visible = TRUE, !.attributes = attrs,
                     !.gizmo = GizmoHighlight(g1, s.axis)]

\* the filter loop without its test of the locked flag
RECURSIVE AttachLoopIgnoresLock(_, _, _)
AttachLoopIgnoresLock(list, i, acc) ==
    IF i > Len(list) THEN acc
    ELSE AttachLoopIgnoresLock(list, i + 1,
            IF isObject3D(list[i]) /\ parent(list[i]) # Null
            THEN Append(acc, list[i]) ELSE acc)

\* the filter loop of attach
RECURSIVE AttachLoop(_, _, _)
AttachLoop(list, i, acc) ==
    IF i > Len(list) THEN acc
    ELSE AttachLoop(list, i + 1,
            IF isObject3D(list[i]) /\ ~locked(list[i]) /\ parent(list[i]) # Null
            THEN Append(acc, list[i]) ELSE acc)

\* the loop of attach that adds snapshot slots
RECURSIVE GrowAttributes(_, _)
GrowAttributes(attrs, n) ==
    IF Len(attrs) < n
    THEN GrowAttributes(Append(attrs, TransformControlAtttributes), n)
    ELSE attrs

\* TransformControls.prototype.attach
Attach(s0, list) ==
    LET objs == AttachLoop(list, 1, <<>>)
        s == [Log(s0, "attach") EXCEPT
                 !.objects = objs,
                 !.attributes = GrowAttributes(@, Len(objs))]
    IN IF Len(s.objects) > 0 THEN UpdatePose(s) ELSE Clear(s)

\* The gizmos among this.children: whether this.gizmo is one of them, and how
\* many others there are.
\* this.remove(this.gizmo)
Remove(c) == [c EXCEPT !.active = FALSE]
\* this.gizmo = new ...; this.add(this.gizmo), the gizmo before it no longer
\* being this.gizmo
Add(c) == [active |-> TRUE, others |-> c.others + (IF c.active THEN 1 ELSE 0)]

\* gizmo.dismiss !== undefined: the base gizmo defines no dismiss method
HasDismiss(g) == g.type # "base"

\* the gizmo a mode is given by setMode
GizmoTypeOf(m) == IF m \in {TRANSLATE, ROTATE, SCALE} THEN m ELSE "base"

\* setMode without the early return on an unchanged mode
SetModeAlways(s0, m) ==
    LET s == Log(s0, "setMode")
        dismissed == IF HasDismiss(s.gizmo) THEN Log(s, "dismiss") ELSE s
        removed == [Log(dismissed, "remove") EXCEPT
                       !.mode = m,
                       !.children = Remove(@)]
        new == TransformGizmo(GizmoTypeOf(m))
        made == [Log(Log(removed, "construct"), "add") EXCEPT
                    !.space = IF m = SCALE THEN LOCAL_SPACE ELSE @,
                    !.gizmo = new,
                    !.children = Add(@),
                    !.visible = Len(s.objects) > 0]
    IN UpdatePose(made)

\* setMode that gives the world space back to every mode but SCALE
SetModeRestoresWorld(s0, m) ==
    LET s == Log(s0, "setMode") IN
    IF s.mode = m THEN s
    ELSE
        LET dismissed == IF HasDismiss(s.gizmo) THEN Log(s, "dismiss") ELSE s
            removed == [Log(dismissed, "remove") EXCEPT
                           !.mode = m,
                           !.children = Remove(@)]
            new == TransformGizmo(GizmoTypeOf(m))
            made == [Log(Log(removed, "construct"), "add") EXCEPT
                        !.space = IF m = SCALE THEN LOCAL_SPACE ELSE WORLD,
                        !.gizmo = new,
                        !.children = Add(@),
                        !.visible = Len(s.objects) > 0]
        IN UpdatePose(made)

\* TransformControls.prototype.setMode
SetMode(s0, m) ==
    LET s == Log(s0, "setMode") IN
    IF s.mode = m THEN s
    ELSE
        LET dismissed == IF HasDismiss(s.gizmo) THEN Log(s, "dismiss") ELSE s
            removed == [Log(dismissed, "remove") EXCEPT
                           !.mode = m,
                           !.children = Remove(@)]
            new == TransformGizmo(GizmoTypeOf(m))
            made == [Log(Log(removed, "construct"), "add") EXCEPT
                        !.space = IF m = SCALE THEN LOCAL_SPACE ELSE @,
                        !.gizmo = new,
                        !.children = Add(@),
                        !.visible = Len(s.objects) > 0]
        IN UpdatePose(made)

-----------------------------------------------------------------------------
(* Picking *)

\* onPointerHover that goes on picking while a drag is in progress
OnPointerHoverWhileDragging(s0, pick) ==
    LET s == Log(s0, "onPointerHover") IN
    IF Len(s.objects) = 0 \/ s.mode = NONE THEN s
    ELSE IF s.axis # pick THEN UpdatePose([s EXCEPT !.axis = pick])
    ELSE s

\* TransformControls.prototype.onPointerHover; pick is the name of the nearest
\* picker under the pointer, Null when intersectObjects returns false
OnPointerHover(s0, pick) ==
    LET s == Log(s0, "onPointerHover") IN
    IF Len(s.objects) = 0 \/ s.dragging \/ s.mode = NONE THEN s
    ELSE IF s.axis # pick THEN UpdatePose([s EXCEPT !.axis = pick])
    ELSE s

\* the snapshot onPointerDown takes of the object at index i
Snapshot(s, i) ==
    LET o == s.objects[i] IN
    [s.attributes[i] EXCEPT
        !.oldPosition = s.scene[o].position,
        !.oldScale = s.scene[o].scale,
        !.oldQuaternion = s.scene[o].quaternion,
        !.oldRotationMatrix = LocalRotation(s.scene, o),
        !.worldRotationMatrix = WorldRotation(s.scene, o),
        !.parentRotationMatrix = ParentRotation(parent(o)),
        !.parentScale = [num |-> One3, den |-> ParentWorldScale(parent(o))],
        !.fresh = TRUE,
        !.from = o]

\* history: a new drag begins, no slot has been written by its pointer-down
Stale(s) ==
    [s EXCEPT !.attributes = [i \in 1..Len(@) |-> [@[i] EXCEPT !.fresh = FALSE]]]

\* TransformControls.prototype.onPointerDown; hit is the point of the active
\* plane under the pointer, Miss when the ray misses the plane
OnPointerDown(s0, pick, hit) ==
    LET s == Log(s0, "onPointerDown") IN
    IF Len(s.objects) = 0 \/ s.dragging \/ s.mode = NONE THEN s
    ELSE IF pick = Null THEN [Stale(s) EXCEPT !.dragging = TRUE]
    ELSE
        LET posed == UpdatePose([Stale(s) EXCEPT !.editing = TRUE, !.axis = pick])
            planed == [posed EXCEPT !.gizmo = SetActivePlane(@, posed.axis, Eye)]
        IN IF hit = Miss THEN [planed EXCEPT !.dragging = TRUE]
           ELSE [planed EXCEPT
                    !.attributes = [i \in 1..Len(planed.attributes) |->
                                       IF i <= Len(planed.objects)
                                       THEN Snapshot(planed, i)
                                       ELSE planed.attributes[i]],
                    !.offset = hit,
                    !.dragging = TRUE]

-----------------------------------------------------------------------------
(* Drag application *)

SetPosition(s, o, p) == [s EXCEPT !.scene[o].position = p]

\* the j loops adding the point to the position the objects have now
MoveAllFromCurrent(s, point) ==
    [s EXCEPT !.scene = [o \in Objs |->
        IF \E j \in 1..Len(s.objects) : s.objects[j] = o
        THEN [s.scene[o] EXCEPT !.position = VAdd(@, point)]
        ELSE s.scene[o]]]

\* the two inner j loops of the translate branch
MoveAll(s, point) ==
    [s EXCEPT !.scene = [o \in Objs |->
        IF \E j \in 1..Len(s.objects) : s.objects[j] = o
        THEN [s.scene[o] EXCEPT !.position =
                 VAdd(s.attributes[CHOOSE j \in 1..Len(s.objects) : s.objects[j] = o]
                         .oldPosition, point)]
        ELSE s.scene[o]]]

\* the snap block of the translate branch, for the object at index i
SnapPosition(s, i) ==
    LET o == s.objects[i]
        a == s.attributes[i]
        p0 == s.scene[o].position
        p1 == IF s.space = LOCAL_SPACE
              THEN MApply(MInverse(a.worldRotationMatrix), p0) ELSE p0
        p2 == <<IF Has(s.axis, "X") THEN RoundTo(p1[1], TranslationSnap * Unit)
                ELSE p1[1],
                IF Has(s.axis, "Y") THEN RoundTo(p1[2], TranslationSnap * Unit)
                ELSE p1[2],
                IF Has(s.axis, "Z") THEN RoundTo(p1[3], TranslationSnap * Unit)
                ELSE p1[3]>>
        p3 == IF s.space = LOCAL_SPACE THEN MApply(a.worldRotationMatrix, p2) ELSE p2
    IN SetPosition(s, o, p3)

\* a pass of the translate loop that keeps the point on the axes the token lacks
TranslateStepUnmasked(s, i, hit) ==
    LET a == s.attributes[i]
        d == MultiplyParentScale(VSub(hit, s.offset), a.parentScale)
        moved ==
            IF s.space = WORLD \/ Has(s.axis, "XYZ")
            THEN MoveAll(s, MApply(MInverse(a.parentRotationMatrix), d))
            ELSE IF s.space = LOCAL_SPACE
            THEN IF AxisLength(s.axis) > 1
                 THEN MoveAll(s, MApply(a.oldRotationMatrix,
                                   MApply(MInverse(a.worldRotationMatrix), d)))
                 ELSE MoveAll(s, MApply(a.oldRotationMatrix, d))
            ELSE s
    IN IF s.snap THEN SnapPosition(moved, i) ELSE moved

\* one pass of the translate loop, for index i
TranslateStep(s, i, hit) ==
    LET a == s.attributes[i]
        d == MultiplyParentScale(VSub(hit, s.offset), a.parentScale)
        masked == <<IF Has(s.axis, "X") THEN d[1] ELSE 0,
                    IF Has(s.axis, "Y") THEN d[2] ELSE 0,
                    IF Has(s.axis, "Z") THEN d[3] ELSE 0>>
        moved ==
            IF s.space = WORLD \/ Has(s.axis, "XYZ")
            THEN MoveAll(s, MApply(MInverse(a.parentRotationMatrix), masked))
            ELSE IF s.space = LOCAL_SPACE
            THEN IF AxisLength(s.axis) > 1
                 THEN MoveAll(s, MApply(a.oldRotationMatrix,
                                   MApply(MInverse(a.worldRotationMatrix), masked)))
                 ELSE MoveAll(s, MApply(a.oldRotationMatrix, masked))
            ELSE s
    IN IF s.snap THEN SnapPosition(moved, i) ELSE moved

RECURSIVE TranslateLoop(_, _, _)
TranslateLoop(s, i, hit) ==
    IF i > Len(s.objects) THEN s
    ELSE TranslateLoop(TranslateStep(s, i, hit), i + 1, hit)

\* the physics block of the scale branch: the shapes follow the scale
SyncShapes(s, o) ==
    [s EXCEPT !.scene[o].shapes = [k \in 1..Len(@) |->
        IF @[k].type = "box"
        THEN [@[k] EXCEPT !.halfExtents = [num |-> s.scene[o].scale, den |-> 2]]
        ELSE IF @[k].type = "sphere"
        THEN [@[k] EXCEPT !.radius = s.scene[o].scale[1]]
        ELSE @[k]]]

\* old * (1 + d) for a scale component old and a length d; -1 when the
\* product is no whole number
ScaleBy(old, d) ==
    IF (old * (Unit + d)) % Unit = 0 THEN (old * (Unit + d)) \div Unit ELSE -1

\* one pass of the scale loop, for index i, up to the physics block
ScaleStep(s, i, hit) ==
    LET o == s.objects[i]
        a == s.attributes[i]
        d == MultiplyParentScale(VSub(hit, s.offset), a.parentScale)
    IN IF s.axis = "XYZ"
       THEN [s EXCEPT !.scene[o].scale =
                <<ScaleBy(a.oldScale[1], d[2]), ScaleBy(a.oldScale[2], d[2]),
                  ScaleBy(a.oldScale[3], d[2])>>]
       ELSE LET r == MApply(MInverse(a.worldRotationMatrix), d) IN
            IF s.axis = "X"
            THEN [s EXCEPT !.scene[o].scale[1] = ScaleBy(a.oldScale[1], r[1])]
            ELSE IF s.axis = "Y"
            THEN [s EXCEPT !.scene[o].scale[2] = ScaleBy(a.oldScale[2], r[2])]
            ELSE IF s.axis = "Z"
            THEN [s EXCEPT !.scene[o].scale[3] = ScaleBy(a.oldScale[3], r[3])]
            ELSE s

\* The scale loop.  The shapes loop counts with the same variable i as the
\* loop over the objects (var i is function-scoped): after a PhysicsObject the
\* outer loop goes on from the number of its shapes plus one.  i is the
\* 1-based index; a loop that made more passes than there are objects
\* revisits an index and never ends.
RECURSIVE ScaleLoop(_, _, _, _)
ScaleLoop(s, i, hit, passes) ==
    IF i > Len(s.objects) THEN s
    ELSE IF passes > Len(s.objects) THEN [s EXCEPT !.hung = TRUE]
    ELSE LET o == s.objects[i]
             scaled == ScaleStep(s, i, hit)
         IN IF isPhysicsObject(o)
            THEN ScaleLoop(SyncShapes(scaled, o), Len(s.scene[o].shapes) + 2,
                           hit, passes + 1)
            ELSE ScaleLoop(scaled, i + 1, hit, passes + 1)

\* toolRotation / offsetRotation: the three atan2 angles of a vector
RotationOf(v) == <<Atan2(v[3], v[2]), Atan2(v[1], v[3]), Atan2(v[2], v[1])>>

\* Math.round(angle / rotationSnap) * rotationSnap with rotationSnap = 0.1 rad:
\* only the zero angle stays a whole number of eighths of a turn
SnapAngle(a) == IF a = {0} THEN {0} ELSE {}

\* one pass of the rotate loop, for index i
RotateStep(s, i, hit) ==
    LET o == s.objects[i]
        a == s.attributes[i]
        point == MultiplyParentScale(VSub(hit, a.worldPosition), a.parentScale)
        tempVector == MultiplyParentScale(VSub(s.offset, a.worldPosition), a.parentScale)
        parentInv == QFromMatrix(MInverse(a.parentRotationMatrix))
        worldQ == QFromMatrix(a.worldRotationMatrix)
    IN IF s.axis = "E" THEN
           \* this.lookAtMatrix is never written: it is the identity
           LET tool == RotationOf(point)
               off == RotationOf(tempVector)
               quaternionE == QFromAxisAngle(Eye, AngleSub(tool[3], off[3]))
           IN [s EXCEPT !.scene[o].quaternion = QMul(QMul(parentInv, quaternionE), worldQ)]
       ELSE IF s.axis = "XYZE" THEN
           \* free rotation about cross(point, tempVector): outside the exact domain
           [s EXCEPT !.scene[o].quaternion = <<0, 0, 0, 0>>]
       ELSE IF s.space = LOCAL_SPACE THEN
           LET tool == RotationOf(MApply(MInverse(a.worldRotationMatrix), point))
               off == RotationOf(MApply(MInverse(a.worldRotationMatrix), tempVector))
               k == IF s.axis = "X" THEN 1 ELSE IF s.axis = "Y" THEN 2 ELSE 3
               delta == IF s.snap THEN SnapAngle(AngleSub(tool[k], off[k]))
                        ELSE AngleSub(tool[k], off[k])
               quaternionXYZ == QFromMatrix(a.oldRotationMatrix)
           IN IF s.axis = "X"
              THEN [s EXCEPT !.scene[o].quaternion =
                       QMul(quaternionXYZ, QFromAxisAngle(unitX, delta))]
              ELSE IF s.axis = "Y"
              THEN [s EXCEPT !.scene[o].quaternion =
                       QMul(quaternionXYZ, QFromAxisAngle(unitY, delta))]
              ELSE IF s.axis = "Z"
              THEN [s EXCEPT !.scene[o].quaternion =
                       QMul(quaternionXYZ, QFromAxisAngle(unitZ, delta))]
              ELSE [s EXCEPT !.scene[o].quaternion = quaternionXYZ]
       ELSE IF s.space = WORLD THEN
           LET tool == RotationOf(point)
               off == RotationOf(tempVector)
               k == IF s.axis = "X" THEN 1 ELSE IF s.axis = "Y" THEN 2 ELSE 3
               delta == IF s.snap THEN SnapAngle(AngleSub(tool[k], off[k]))
                        ELSE AngleSub(tool[k], off[k])
               turned == IF s.axis = "X" THEN QMul(parentInv, QFromAxisAngle(unitX, delta))
                         ELSE IF s.axis = "Y"
                         THEN QMul(parentInv, QFromAxisAngle(unitY, delta))
                         ELSE IF s.axis = "Z"
                         THEN QMul(parentInv, QFromAxisAngle(unitZ, delta))
                         ELSE parentInv
           IN [s EXCEPT !.scene[o].quaternion = QMul(turned, worldQ)]
       ELSE s

RECURSIVE RotateLoop(_, _, _)
RotateLoop(s, i, hit) ==
    IF i > Len(s.objects) THEN s
    ELSE RotateLoop(RotateStep(s, i, hit), i + 1, hit)

\* onPointerMove handling a mode it does not know as TRANSLATE
OnPointerMoveDefaultsToTranslate(s0, hit) ==
    LET s == Log(s0, "onPointerMove") IN
    IF Len(s.objects) = 0 \/ s.axis = Null \/ ~s.dragging \/ s.mode = NONE THEN s
    ELSE IF hit = Miss THEN s
    ELSE LET applied ==
                 IF s.mode = SCALE THEN ScaleLoop(s, 1, hit, 1)
                 ELSE IF s.mode = ROTATE THEN RotateLoop(s, 1, hit)
                 ELSE TranslateLoop(s, 1, hit)
         IN IF applied.hung THEN applied ELSE UpdatePose(applied)

\* onPointerMove taking the origin for the point of a ray that misses the plane
OnPointerMoveMissAtOrigin(s0, hit) ==
    LET s == Log(s0, "onPointerMove")
        point == IF hit = Miss THEN Zero3 ELSE hit
    IN
    IF Len(s.objects) = 0 \/ s.axis = Null \/ ~s.dragging \/ s.mode = NONE THEN s
    ELSE LET applied ==
                 IF s.mode = TRANSLATE THEN TranslateLoop(s, 1, point)
                 ELSE IF s.mode = SCALE THEN ScaleLoop(s, 1, point, 1)
                 ELSE IF s.mode = ROTATE THEN RotateLoop(s, 1, point)
                 ELSE s
         IN IF applied.hung THEN applied ELSE UpdatePose(applied)

\* TransformControls.prototype.onPointerMove
OnPointerMove(s0, hit) ==
    LET s == Log(s0, "onPointerMove") IN
    IF Len(s.objects) = 0 \/ s.axis = Null \/ ~s.dragging \/ s.mode = NONE THEN s
    ELSE IF hit = Miss THEN s
    ELSE LET applied ==
                 IF s.mode = TRANSLATE THEN TranslateLoop(s, 1, hit)
                 ELSE IF s.mode = SCALE THEN ScaleLoop(s, 1, hit, 1)
                 ELSE IF s.mode = ROTATE THEN RotateLoop(s, 1, hit)
                 ELSE s
         IN IF applied.hung THEN applied ELSE UpdatePose(applied)

-----------------------------------------------------------------------------
(* Commit on release *)

\* new ChangeAction(object, attribute, newValue, oldValue); object is the
\* position, scale or quaternion of the attached object o
ChangeAction(o, kind, attribute, newValue, oldValue) ==
    [target |-> <<o, kind>>, attribute |-> attribute,
     newValue |-> newValue, oldValue |-> oldValue]

\* the actions pushed with the new and the old value in each other's place
ActionsForSwapped(s, i, kind, old, names) ==
    LET o == s.objects[i] IN
    [k \in 1..Len(names) |->
        ChangeAction(o, kind, names[k], old[k], s.scene[o][kind][k])]

\* the actions pushed for the object at index i
ActionsFor(s, i, kind, old, names) ==
    LET o == s.objects[i] IN
    [k \in 1..Len(names) |->
        ChangeAction(o, kind, names[k], s.scene[o][kind][k], old[k])]

\* the commit loop leaving after the first object
CollectActionsFirstOnly(s, i, kind, acc) ==
    IF i > Len(s.objects) \/ i > 1 THEN acc
    ELSE LET a == s.attributes[i]
             step == IF kind = "position"
                     THEN ActionsFor(s, i, kind, a.oldPosition, <<"x", "y", "z">>)
                     ELSE IF kind = "scale"
                     THEN ActionsFor(s, i, kind, a.oldScale, <<"x", "y", "z">>)
                     ELSE ActionsFor(s, i, kind, a.oldQuaternion, <<"x", "y", "z", "w">>)
         IN acc \o step

RECURSIVE CollectActions(_, _, _, _)
CollectActions(s, i, kind, acc) ==
    IF i > Len(s.objects) THEN acc
    ELSE LET a == s.attributes[i]
             step == IF kind = "position"
                     THEN ActionsFor(s, i, kind, a.oldPosition, <<"x", "y", "z">>)
                     ELSE IF kind = "scale"
                     THEN ActionsFor(s, i, kind, a.oldScale, <<"x", "y", "z">>)
                     ELSE ActionsFor(s, i, kind, a.oldQuaternion, <<"x", "y", "z", "w">>)
         IN CollectActions(s, i + 1, kind, acc \o step)

\* Editor.addAction(new ActionBundle(actions))
AddAction(s, actions) == [s EXCEPT !.submitted = Append(@, actions)]

\* onPointerUp committing whether or not an edit was in progress
OnPointerUpAlwaysCommits(s0) ==
    LET s == Log(s0, "onPointerUp")
        committed ==
            IF s.mode = TRANSLATE
            THEN AddAction(s, CollectActions(s, 1, "position", <<>>))
            ELSE IF s.mode = SCALE
            THEN AddAction(s, CollectActions(s, 1, "scale", <<>>))
            ELSE IF s.mode = ROTATE
            THEN AddAction(s, CollectActions(s, 1, "quaternion", <<>>))
            ELSE s
    IN [committed EXCEPT !.editing = FALSE, !.dragging = FALSE]

\* onPointerUp clearing the flags only after an edit
OnPointerUpOnlyAfterEdit(s0) ==
    LET s == Log(s0, "onPointerUp") IN
    IF ~s.editing THEN s
    ELSE LET committed ==
                 IF s.mode = TRANSLATE
                 THEN AddAction(s, CollectActions(s, 1, "position", <<>>))
                 ELSE IF s.mode = SCALE
                 THEN AddAction(s, CollectActions(s, 1, "scale", <<>>))
                 ELSE IF s.mode = ROTATE
                 THEN AddAction(s, CollectActions(s, 1, "quaternion", <<>>))
                 ELSE s
         IN [committed EXCEPT !.editing = FALSE, !.dragging = FALSE]

\* onPointerUp that ends the drag and leaves the edit open
OnPointerUpKeepsEditing(s0) ==
    LET s == Log(s0, "onPointerUp")
        committed ==
            IF s.editing THEN
                IF s.mode = TRANSLATE
                THEN AddAction(s, CollectActions(s, 1, "position", <<>>))
                ELSE IF s.mode = SCALE
                THEN AddAction(s, CollectActions(s, 1, "scale", <<>>))
                ELSE IF s.mode = ROTATE
                THEN AddAction(s, CollectActions(s, 1, "quaternion", <<>>))
                ELSE s
            ELSE s
    IN [committed EXCEPT !.dragging = FALSE]

\* TransformControls.prototype.onPointerUp
OnPointerUp(s0) ==
    LET s == Log(s0, "onPointerUp")
        committed ==
            IF s.editing THEN
                IF s.mode = TRANSLATE
                THEN AddAction(s, CollectActions(s, 1, "position", <<>>))
                ELSE IF s.mode = SCALE
                THEN AddAction(s, CollectActions(s, 1, "scale", <<>>))
                ELSE IF s.mode = ROTATE
                THEN AddAction(s, CollectActions(s, 1, "quaternion", <<>>))
                ELSE s
            ELSE s
    IN [committed EXCEPT !.editing = FALSE, !.dragging = FALSE]

-----------------------------------------------------------------------------
(* The frame *)

\* What update() polls: mouse.buttonJustPressed / buttonJustReleased, a
\* non-zero mouse.delta, and what the two raycasts of intersectObjects give
\* for the pointer position of the frame.
InputsOver(g, points) ==
    {in \in [pressed : BOOLEAN, released : BOOLEAN, moved : BOOLEAN,
             pick : PickerNames(g.type) \cup {Null}, hit : points \cup {Miss}] :
        \* a raycast nobody makes has no result
        /\ (~in.pressed /\ ~in.moved) => (in.pick = Null /\ in.hit = Miss)
        /\ (~in.moved /\ in.pick = Null) => in.hit = Miss}

\* the frames whose pointer rays hit the planes at Points
Inputs(g) == InputsOver(g, Points)

\* update handling the drag before the pointer-down and the pointer-up
UpdateDragFirst(s, in) ==
    LET hover == IF in.moved THEN OnPointerHover(s, in.pick) ELSE s
        move == IF in.moved THEN OnPointerMove(hover, in.hit) ELSE hover
        down == IF in.pressed THEN OnPointerDown(move, in.pick, in.hit) ELSE move
        up == IF in.released THEN OnPointerUp(down) ELSE down
    IN IF up.hung THEN up ELSE UpdatePose(up)

\* TransformControls.prototype.update, up to its return
Update(s, in) ==
    LET down == IF in.pressed THEN OnPointerDown(s, in.pick, in.hit) ELSE s
        up == IF in.released THEN OnPointerUp(down) ELSE down
        hover == IF in.moved THEN OnPointerHover(up, in.pick) ELSE up
        move == IF in.moved THEN OnPointerMove(hover, in.hit) ELSE hover
    IN IF move.hung THEN move ELSE UpdatePose(move)

-----------------------------------------------------------------------------
(* The state machine *)

\* the objects the lists of attach() are made of
Selectable == 1..5

\* the lists attach() is called with: objects of the scene, none twice
RECURSIVE ListsOfLen(_)
ListsOfLen(n) ==
    IF n = 0 THEN {<<>>}
    ELSE {Append(l, o) : l \in ListsOfLen(n - 1), o \in Selectable}

Lists == {l \in UNION {ListsOfLen(n) : n \in 0..MaxLen} :
            \A i, j \in 1..Len(l) : i # j => l[i] # l[j]}

\* the values the model keeps exact
InRange(sc) ==
    \A o \in Objs :
        /\ \A k \in 1..3 : sc[o].position[k] \in -(MaxCoord * Unit)..(MaxCoord * Unit)
        /\ \A k \in 1..3 : sc[o].scale[k] \in 0..MaxScale
        /\ sc[o].quaternion[1] * sc[o].quaternion[1]
           + sc[o].quaternion[2] * sc[o].quaternion[2]
           + sc[o].quaternion[3] * sc[o].quaternion[3]
           + sc[o].quaternion[4] * sc[o].quaternion[4] = 1

-----------------------------------------------------------------------------
(* The side bar of the scene editor *)

\* the tool constants of the editor, and a value that is none of them
ToggleTools == {"SELECT", "MOVE", "SCALE", "ROTATE"}
Tools == ToggleTools \cup {"OTHER"}

\* the SideBar constructor: the select toggle starts selected; forwarded is
\* the list of the tools passed to parent.selectTool
SideBar ==
    [select |-> TRUE, move |-> FALSE, scale |-> FALSE, rotate |-> FALSE,
     forwarded |-> <<>>]

\* selectTool that selects the toggle of the tool and leaves the others
SelectToolKeepsOthers(sb, tool) ==
    [sb EXCEPT !.select = @ \/ (tool = "SELECT"),
               !.move = @ \/ (tool = "MOVE"),
               !.scale = @ \/ (tool = "SCALE"),
               !.rotate = @ \/ (tool = "ROTATE"),
               !.forwarded = Append(@, tool)]

\* SideBar.prototype.selectTool
SelectTool(sb, tool) ==
    [sb EXCEPT !.select = (tool = "SELECT"),
               !.move = (tool = "MOVE"),
               !.scale = (tool = "SCALE"),
               !.rotate = (tool = "ROTATE"),
               !.forwarded = Append(@, tool)]

\* the tools whose toggle is selected
Selected(sb) ==
    {t \in ToggleTools :
        \/ (t = "SELECT" /\ sb.select)
        \/ (t = "MOVE" /\ sb.move)
        \/ (t = "SCALE" /\ sb.scale)
        \/ (t = "ROTATE" /\ sb.rotate)}

-----------------------------------------------------------------------------

\* the constructor
Constructed ==
    /\ objects = <<>>
    /\ attributes = <<>>
    /\ space = WORLD
    /\ axis = Null
    /\ mode = TRANSLATE
    /\ dragging = FALSE
    /\ editing = FALSE
    /\ visible = FALSE
    /\ snap = FALSE
    /\ gizmo = TransformGizmo("base")
    /\ children = [active |-> FALSE, others |-> 0]
    /\ offset = Zero3
    /\ hung = FALSE
    /\ submitted = <<>>
    /\ armed = FALSE
    /\ edits = 0
    /\ ops = 0
    /\ sidebar = SideBar

\* the controls are constructed over the scene of the editor
Init == Constructed /\ scene = InitScene

\* the program variables after an operation that ended in state s
Becomes(s) ==
    /\ objects' = s.objects
    /\ attributes' = s.attributes
    /\ space' = s.space
    /\ axis' = s.axis
    /\ mode' = s.mode
    /\ dragging' = s.dragging
    /\ editing' = s.editing
    /\ visible' = s.visible
    /\ snap' = s.snap
    /\ gizmo' = s.gizmo
    /\ children' = s.children
    /\ offset' = s.offset
    /\ scene' = s.scene
    /\ hung' = s.hung
    /\ submitted' = s.submitted

\* one more operation is called
Called ==
    /\ ~hung
    /\ ops < MaxOps
    /\ ops' = ops + 1
    /\ sidebar' = sidebar

DoAttach ==
    /\ Called
    /\ \E list \in Lists : \E s \in {Attach(St, list)} : Becomes(s)
    /\ UNCHANGED <<armed, edits>>

DoClear ==
    /\ Called
    /\ \E s \in {Clear(St)} : Becomes(s)
    /\ UNCHANGED <<armed, edits>>

DoSetMode ==
    /\ Called
    /\ \E m \in Modes : \E s \in {SetMode(St, m)} : Becomes(s)
    /\ UNCHANGED <<armed, edits>>

\* the pointer-down of a frame with input in is processed and hits a picker
Arms(in) ==
    /\ in.pressed
    /\ in.pick # Null
    /\ Len(objects) > 0 /\ ~dragging /\ mode # NONE

\* the frames update() handles in the model: those whose results stay exact
Frames == {in \in Inputs(gizmo) : InRange(Update(St, in).scene)}

\* update returning the dragging flag
UpdateReturnsDragging(s, in) == Update(s, in).dragging

\* the value update() returns
UpdateReturn(s, in) == Update(s, in).editing

DoUpdate ==
    /\ Called
    /\ \E in \in Inputs(gizmo) : \E s \in {Update(St, in)} :
           /\ edits' = IF Arms(in) THEN edits + 1 ELSE edits
           /\ edits' <= MaxEdits
           /\ InRange(s.scene)
           /\ Becomes(s)
           /\ armed' = IF in.released THEN FALSE
                       ELSE IF Arms(in) THEN TRUE
                       ELSE armed

Next == DoAttach \/ DoClear \/ DoSetMode \/ DoUpdate

Spec == Init /\ [][Next]_vars

\* Frames without a pointer-down: hover, move and release only
DoHover ==
    /\ Called
    /\ \E in \in Inputs(gizmo) : \E s \in {Update(St, in)} :
           /\ ~in.pressed
           /\ InRange(s.scene)
           /\ Becomes(s)
           /\ armed' = IF in.released THEN FALSE ELSE armed
           /\ UNCHANGED edits

HoverNext == DoAttach \/ DoClear \/ DoSetMode \/ DoHover

\* the runs in which the button is never pressed
HoverSpec == Init /\ [][HoverNext]_vars

\* Plane points one scene unit apart
SnapPoints == {<<0, 0, 0>>, <<Unit, Unit, 0>>}

\* the editor writes this.snap
SetSnap(s, v) == [s EXCEPT !.snap = v]

DoSetSnap ==
    /\ Called
    /\ \E v \in BOOLEAN : \E s \in {SetSnap(St, v)} : Becomes(s)
    /\ UNCHANGED <<armed, edits>>

\* setMode between NONE and TRANSLATE
DoSetModeTranslate ==
    /\ Called
    /\ \E m \in {NONE, TRANSLATE} : \E s \in {SetMode(St, m)} : Becomes(s)
    /\ UNCHANGED <<armed, edits>>

\* a frame whose pointer rays hit the planes at SnapPoints
DoSnapFrame ==
    /\ Called
    /\ \E in \in InputsOver(gizmo, SnapPoints) : \E s \in {Update(St, in)} :
           /\ edits' = IF Arms(in) THEN edits + 1 ELSE edits
           /\ edits' <= MaxEdits
           /\ InRange(s.scene)
           /\ Becomes(s)
           /\ armed' = IF in.released THEN FALSE
                       ELSE IF Arms(in) THEN TRUE
                       ELSE armed

SnapNext == DoAttach \/ DoSetModeTranslate \/ DoSetSnap \/ DoSnapFrame

\* the runs of the translate gizmo in which the editor switches snap
SnapSpec == Init /\ [][SnapNext]_vars

\* the collision shapes a body can carry
Shapes ==
    {[type |-> "sphere", radius |-> 1],
     [type |-> "box", halfExtents |-> [num |-> One3, den |-> 2]]}

RECURSIVE ShapeListsOfLen(_)
ShapeListsOfLen(n) ==
    IF n = 0 THEN {<<>>}
    ELSE {Append(l, sh) : l \in ShapeListsOfLen(n - 1), sh \in Shapes}

\* body.shapes of a PhysicsObject: up to MaxShapes shapes
ShapeLists == UNION {ShapeListsOfLen(n) : n \in 0..MaxShapes}

\* the scene, the PhysicsObject carrying the shapes list
SceneWith(list) ==
    [o \in Objs |-> IF isPhysicsObject(o)
                    THEN [InitScene[o] EXCEPT !.shapes = list]
                    ELSE InitScene[o]]

PhysicsInit == Constructed /\ \E list \in ShapeLists : scene = SceneWith(list)

\* setMode(SCALE)
DoSetModeScale ==
    /\ Called
    /\ \E s \in {SetMode(St, SCALE)} : Becomes(s)
    /\ UNCHANGED <<armed, edits>>

\* attach() with lists of attachable objects
DoAttachBodies ==
    /\ Called
    /\ \E list \in {l \in Lists : AttachLoop(l, 1, <<>>) = l} :
           \E s \in {Attach(St, list)} : Becomes(s)
    /\ UNCHANGED <<armed, edits>>

\* a frame in which the pointer did one thing: a press, a release or a move
DoPointerFrame ==
    /\ Called
    /\ \E in \in {f \in Inputs(gizmo) :
                    \/ (f.pressed /\ ~f.released /\ ~f.moved)
                    \/ (~f.pressed /\ f.released /\ ~f.moved)
                    \/ (~f.pressed /\ ~f.released /\ f.moved)} :
           \E s \in {Update(St, in)} :
               /\ edits' = IF Arms(in) THEN edits + 1 ELSE edits
               /\ edits' <= MaxEdits
               /\ InRange(s.scene)
               /\ Becomes(s)
               /\ armed' = IF in.released THEN FALSE
                           ELSE IF Arms(in) THEN TRUE
                           ELSE armed

PhysicsNext == DoAttachBodies \/ DoSetModeScale \/ DoPointerFrame

\* the runs of the scale gizmo over bodies with any list of shapes
PhysicsSpec == PhysicsInit /\ [][PhysicsNext]_vars

\* attach() with lists of the two objects whose parents are not turned
DoAttachUnturned ==
    /\ Called
    /\ \E list \in {<<>>, <<1>>, <<6>>, <<1, 6>>, <<6, 1>>} :
           \E s \in {Attach(St, list)} : Becomes(s)
    /\ UNCHANGED <<armed, edits>>

MaskNext == DoAttachUnturned \/ DoSetModeTranslate \/ DoPointerFrame

\* the runs of the translate gizmo over objects whose parents are not turned
MaskSpec == Init /\ [][MaskNext]_vars

\* a click on a toggle, or a shortcut: sidebar.selectTool(tool)
DoSelectTool ==
    /\ Len(sidebar.forwarded) < MaxCalls
    /\ \E tool \in Tools : sidebar' = SelectTool(sidebar, tool)
    /\ UNCHANGED <<objects, attributes, space, axis, mode, dragging, editing,
                   visible, snap, gizmo, children, offset, scene, hung,
                   submitted, armed, edits, ops>>

SideBarNext == DoSelectTool

\* the runs of the side bar
SideBarSpec == Init /\ [][SideBarNext]_vars

-----------------------------------------------------------------------------
(* Properties *)

\* C1: whatever the selection is, attach(L) makes the selection exactly the
\* objects of L that are Object3D, not locked and parented, in the order of L.
C1_AttachSelectsAttachable ==
    \A list \in Lists :
        Attach(St, list).objects =
            SelectSeq(list, LAMBDA o : isObject3D(o) /\ ~locked(o) /\ parent(o) # Null)

\* two objects are attached and attach is about to be handed a locked object
\* followed by one of them
C1_Witness ==
    /\ objects = <<2, 1>>
    /\ <<3, 1>> \in Lists
    /\ Attach(St, <<3, 1>>).objects = <<1>>

\* C2: clear, and attach with no attachable object, end with an empty
\* selection, visible = false and axis = null, in every mode and state.
C2_EmptySelectionHidesControls ==
    /\ LET s == Clear(St) IN s.objects = <<>> /\ ~s.visible /\ s.axis = Null
    /\ \A list \in Lists :
           \A s \in {Attach(St, list)} :
               s.objects = <<>> => (~s.visible /\ s.axis = Null)

\* an edit is in progress on a visible selection with a picked axis when the
\* selection is emptied
C2_Witness ==
    /\ Len(objects) > 0 /\ visible /\ axis # Null /\ editing
    /\ Attach(St, <<3>>).objects = <<>>
    /\ Clear(St).axis = Null

\* C3: a second setMode(X) right after setMode(X) only returns: the gizmo, the
\* gizmos among the children, mode, space and visible stay and neither dismiss
\* nor remove nor a constructor is called.
C3_SetModeIdempotent ==
    \A m \in Modes :
        LET once == [SetMode(St, m) EXCEPT !.calls = <<>>]
            twice == SetMode(once, m)
        IN /\ twice.gizmo = once.gizmo
           /\ twice.children = once.children
           /\ twice.mode = once.mode
           /\ twice.space = once.space
           /\ twice.visible = once.visible
           /\ twice.calls = <<"setMode">>

\* the first of the two calls replaces a gizmo that has been posed for an edit
\* on a selection
C3_Witness ==
    /\ Len(objects) > 0 /\ mode = SCALE /\ gizmo.activePlane = "XY"
    /\ LET c == SetMode(St, ROTATE).calls IN
       /\ \E i \in 1..Len(c) : c[i] = "dismiss"
       /\ \E i \in 1..Len(c) : c[i] = "construct"

\* C4: a setMode(SCALE) that changes the mode leaves space LOCAL, and no
\* setMode moves space away from LOCAL.
C4_ScaleForcesLocalSpace ==
    /\ mode # SCALE => SetMode(St, SCALE).space = LOCAL_SPACE
    /\ \A m \in Modes : space = LOCAL_SPACE => SetMode(St, m).space = LOCAL_SPACE

\* the mode went from SCALE to TRANSLATE and the space, WORLD at construction,
\* is still LOCAL
C4_Witness == space = LOCAL_SPACE /\ mode = TRANSLATE /\ gizmo.type = TRANSLATE

\* C5: in every frame the handlers run in the order pointer-down (if pressed),
\* pointer-up (if released), hover and drag (if moved), and the last thing the
\* frame does is updatePose (with the clear it makes of an empty selection).
C5_FrameOrder ==
    \A in \in Inputs(gizmo) :
        \A c \in {Update(St, in).calls} :
        LET handlers == SelectSeq(c, LAMBDA x : x \in {"onPointerDown", "onPointerUp",
                                                       "onPointerHover", "onPointerMove"})
            ended == SelectSeq(c, LAMBDA x : x # "clear")
        IN /\ handlers = (IF in.pressed THEN <<"onPointerDown">> ELSE <<>>)
                         \o (IF in.released THEN <<"onPointerUp">> ELSE <<>>)
                         \o (IF in.moved THEN <<"onPointerHover", "onPointerMove">>
                             ELSE <<>>)
           /\ Len(ended) > 0
           /\ ended[Len(ended)] = "updatePose"
           /\ c[Len(c)] = "clear" => Len(objects) = 0

\* a frame with press, release and move on a picker of the translate gizmo,
\* whose pointer-up commits the edit its pointer-down began
C5_Witness ==
    /\ Len(objects) > 0 /\ mode = TRANSLATE /\ ~dragging
    /\ \E in \in Frames :
           /\ in.pressed /\ in.released /\ in.moved /\ in.pick # Null
           /\ Len(Update(St, in).submitted) = 1

\* C6: update() returns true exactly when a pointer-down that hit a picker was
\* processed and no pointer-up was processed since, the frame included.
C6_UpdateReturnsEditing ==
    /\ editing <=> armed
    /\ \A in \in Inputs(gizmo) :
           UpdateReturn(St, in) <=>
               (IF in.released THEN FALSE ELSE IF Arms(in) THEN TRUE ELSE armed)

\* a pointer-down hit a picker in an earlier frame and the frame now coming
\* has no pointer event; another frame presses and releases at once
C6_Witness ==
    /\ armed /\ dragging /\ Len(objects) > 0
    /\ UpdateReturn(St, [pressed |-> FALSE, released |-> FALSE, moved |-> FALSE,
                         pick |-> Null, hit |-> Miss])
    /\ ~UpdateReturn(St, [pressed |-> TRUE, released |-> TRUE, moved |-> FALSE,
                          pick |-> Null, hit |-> Miss])

\* C7: a frame whose pointer-up finds editing true in TRANSLATE, ROTATE or
\* SCALE mode submits exactly one bundle, with a record of every attached
\* object; a frame whose pointer-up finds editing false, and a frame without
\* pointer-up, submit nothing.
C7_OneBundlePerEdit ==
    \A in \in Inputs(gizmo) :
        \A s \in {Update(St, in)} :
        LET edited == in.released /\ (editing \/ Arms(in))
        IN IF ~edited THEN s.submitted = <<>>
           ELSE mode \in {TRANSLATE, ROTATE, SCALE} =>
                /\ Len(s.submitted) = 1
                /\ \A i \in 1..Len(objects) :
                       \E k \in 1..Len(s.submitted[1]) :
                           s.submitted[1][k].target[1] = objects[i]

\* the bundle of a rotation of two objects has been submitted
C7_Witness ==
    /\ Len(submitted) = 1 /\ Len(objects) = 2 /\ mode = ROTATE
    /\ \E o \in Objs : scene[o].quaternion # IdentityQ

\* C8 as claimed: a bundle holds a record of a component only when the final
\* value of the component differs from its snapshot value.
C8_OnlyChangedComponents ==
    \A b \in 1..Len(submitted) :
        \A k \in 1..Len(submitted[b]) :
            submitted[b][k].newValue # submitted[b][k].oldValue

\* C8 as amended: the bundle holds, for every attached object in order, one
\* record of each component of the attribute of the mode (position and scale
\* x, y, z; quaternion x, y, z, w), changed or not, with the value of the
\* component as new value and the value of the snapshot slot as old value.
C8_RecordPerComponent ==
    \A b \in 1..Len(submitted) :
        LET kind == IF mode = TRANSLATE THEN "position"
                    ELSE IF mode = SCALE THEN "scale" ELSE "quaternion"
            names == IF kind = "quaternion" THEN <<"x", "y", "z", "w">>
                     ELSE <<"x", "y", "z">>
            n == Len(names)
        IN /\ mode \in {TRANSLATE, ROTATE, SCALE}
           /\ Len(submitted[b]) = n * Len(objects)
           /\ \A i \in 1..Len(objects) : \A k \in 1..n :
                  submitted[b][(i - 1) * n + k] =
                      [target |-> <<objects[i], kind>>,
                       attribute |-> names[k],
                       newValue |-> scene[objects[i]][kind][k],
                       oldValue |-> (IF kind = "position" THEN attributes[i].oldPosition
                                     ELSE IF kind = "scale" THEN attributes[i].oldScale
                                     ELSE attributes[i].oldQuaternion)[k]]

\* a TRANSLATE / WORLD drag of axis X took an object from x = 0 to x = 2: the
\* bundle holds position.x 0 -> 2 and also position.y 0 -> 0
C8_Witness ==
    /\ mode = TRANSLATE /\ space = WORLD /\ axis = "X" /\ Len(submitted) = 1
    /\ \E k \in 1..Len(submitted[1]) :
           /\ submitted[1][k].attribute = "x"
           /\ submitted[1][k].oldValue = 0 /\ submitted[1][k].newValue = 2 * Unit
    /\ \E k \in 1..Len(submitted[1]) :
           /\ submitted[1][k].attribute = "y"
           /\ submitted[1][k].oldValue = 0 /\ submitted[1][k].newValue = 0

\* C9: in a run without pointer-down nothing is ever submitted, editing and
\* dragging stay false, and a pointer-up submits nothing and leaves both false.
C9_ReleaseWithoutPress ==
    /\ submitted = <<>> /\ ~editing /\ ~dragging
    /\ \A in \in Inputs(gizmo) :
           (in.released /\ ~in.pressed) =>
               \A s \in {Update(St, in)} :
                   s.submitted = <<>> /\ ~s.editing /\ ~s.dragging

\* hover picked an axis of the rotate gizmo of two attached objects
C9_Witness ==
    /\ axis # Null /\ Len(objects) = 2 /\ mode = ROTATE /\ gizmo.highlightAxis = axis
    /\ \E in \in Frames : in.released /\ in.moved /\ ~in.pressed

\* C10: after a pointer-up, alone or in a frame, editing and dragging are
\* false, whatever the mode, the selection and the flags were.
C10_PointerUpClearsFlags ==
    /\ LET s == OnPointerUp(St) IN ~s.editing /\ ~s.dragging
    /\ \A in \in Inputs(gizmo) :
           in.released => \A s \in {Update(St, in)} : ~s.editing /\ ~s.dragging

\* the pointer-up comes in mode NONE during an edit begun in another mode, and
\* commits nothing
C10_Witness ==
    /\ editing /\ dragging /\ mode = NONE
    /\ OnPointerUp(St).submitted = <<>>

\* C11: with snap on, a drag frame of a TRANSLATE edit followed by the
\* pointer-up commits, for every attached object, a whole number of scene
\* units on every axis of the axis token.
C11_SnappedCommit ==
    (snap /\ mode = TRANSLATE /\ editing /\ dragging /\ axis # Null) =>
        \A in \in InputsOver(gizmo, SnapPoints) :
            (in.moved /\ ~in.pressed /\ ~in.released /\ in.hit # Miss) =>
                \A s \in {OnPointerUp(Update(St, in))} :
                    InRange(s.scene) =>
                        \A b \in 1..Len(s.submitted) : \A k \in 1..Len(s.submitted[b]) :
                            LET r == s.submitted[b][k] IN
                            \/ (r.attribute = "x" /\ ~Has(axis, "X"))
                            \/ (r.attribute = "y" /\ ~Has(axis, "Y"))
                            \/ (r.attribute = "z" /\ ~Has(axis, "Z"))
                            \/ r.newValue % (TranslationSnap * Unit) = 0

\* the slots of all attached objects were written by the pointer-down that
\* began the current drag, each from the object attached at its index
Anchored ==
    /\ dragging /\ Len(objects) > 0
    /\ \A i \in 1..Len(objects) : attributes[i].fresh /\ attributes[i].from = objects[i]

\* the frames of a drag: the pointer moved over a point of the plane, no
\* button changed
DragFrames ==
    {in \in Frames : in.moved /\ ~in.pressed /\ ~in.released /\ in.hit # Miss}

UniformTokens == {"XYZ", "XYZE"}

\* C13: in SCALE mode a drag frame with the uniform axis token and vertical
\* delta d sets the scale of every attached object to oldScale * (1 + d) on
\* the three axes at once.
C13_UniformScale ==
    (Anchored /\ mode = SCALE /\ axis \in UniformTokens) =>
        \A f \in DragFrames : \A s \in {Update(St, f)} :
            \A i \in 1..Len(objects) :
                LET a == attributes[i]
                    d == MultiplyParentScale(VSub(f.hit, offset), a.parentScale)[2]
                IN s.scene[objects[i]].scale =
                       <<ScaleBy(a.oldScale[1], d), ScaleBy(a.oldScale[2], d),
                         ScaleBy(a.oldScale[3], d)>>

\* C14: in every reachable state the active gizmo is attached as a child of
\* the controls and no other gizmo is.
C14_OneGizmoAttached ==
    /\ children.active
    /\ children.others = 0

\* C15: there are always at least as many snapshot slots as attached objects,
\* and no step (attach, clear, setMode, update frame) lowers the number of slots.
C15_SlotsGrowOnly ==
    /\ [](Len(attributes) >= Len(objects))
    /\ [][Len(attributes') >= Len(attributes)]_vars

\* slots kept from a larger selection that was cleared since
C15_Witness ==
    /\ Len(attributes) = MaxLen
    /\ Len(objects) = 0

\* C16: every update() call terminates, whatever the selection and the
\* number of collision shapes of its physics objects.
C16_UpdateTerminates == ~hung

\* the frames update() can see, whichever gizmo the pickers belong to
AnyInputs ==
    UNION {Inputs(TransformGizmo(t)) : t \in {"base", TRANSLATE, ROTATE, SCALE}}

\* C17: setMode(NONE) and setMode of a mode the controls do not know install
\* the base gizmo, and while the mode is one of them no frame, whatever it
\* picks and whatever axis, dragging and editing are left over, changes an
\* object of the scene or submits a bundle.
C17_InertModes ==
    /\ \A m \in {NONE, UNKNOWN} : SetMode(St, m).gizmo.type = "base"
    /\ mode \in {NONE, UNKNOWN} =>
           /\ gizmo.type = "base"
           /\ \A in \in AnyInputs : \A s \in {Update(St, in)} :
                  /\ s.scene = scene
                  /\ s.submitted = <<>>
                  /\ s.mode = mode

\* the mode was switched off in the middle of an edit
C17_Witness ==
    /\ mode \in {NONE, UNKNOWN}
    /\ Len(objects) = 2
    /\ dragging /\ editing /\ axis # Null
    /\ \A i \in 1..2 : attributes[i].fresh

\* C18: in TRANSLATE mode and WORLD space, snap off, the parents of the
\* attached objects not turned, a drag frame leaves every coordinate whose
\* letter is not in the axis token at its snapshot value, for every attached
\* object, and leaves scale and quaternion of every object as they are.
C18_MaskedAxesKept ==
    (mode = TRANSLATE /\ space = WORLD /\ ~snap /\ dragging /\ axis # Null
     /\ \A i \in 1..Len(objects) : ParentRotation(parent(objects[i])) = Identity3) =>
        \A f \in DragFrames : \A s \in {Update(St, f)} :
            /\ \A i \in 1..Len(objects) :
                   LET p == s.scene[objects[i]].position
                       old == attributes[i].oldPosition
                   IN /\ ~Has(axis, "X") => p[1] = old[1]
                      /\ ~Has(axis, "Y") => p[2] = old[2]
                      /\ ~Has(axis, "Z") => p[3] = old[3]
            /\ \A o \in Objs :
                   /\ s.scene[o].scale = scene[o].scale
                   /\ s.scene[o].quaternion = scene[o].quaternion

\* two objects are dragged along X, and a frame moves both
C18_Witness ==
    /\ mode = TRANSLATE /\ space = WORLD /\ ~snap /\ Anchored /\ axis = "X"
    /\ Len(objects) = 2
    /\ \A i \in 1..2 : ParentRotation(parent(objects[i])) = Identity3
    /\ \E f \in DragFrames :
           \A i \in 1..2 :
               Update(St, f).scene[objects[i]].position[1] # attributes[i].oldPosition[1]

\* the drag in progress began with a pointer-down that wrote no snapshot:
\* no picker or no plane was hit
Unanchored ==
    /\ dragging /\ Len(objects) > 0
    /\ ~attributes[1].fresh

\* C19: a pointer-down that is processed (objects attached, no drag going on,
\* mode not NONE) ends with dragging set whatever the rays hit, and after a
\* pointer-down without a plane hit the frames of the drag change no object.
C19_DragWithoutPlaneHitIsInert ==
    /\ (Len(objects) > 0 /\ ~dragging /\ mode # NONE) =>
           \A in \in Inputs(gizmo) :
               in.pressed => OnPointerDown(St, in.pick, in.hit).dragging
    /\ Unanchored =>
           \A in \in Frames :
               (in.moved /\ ~in.released) => Update(St, in).scene = scene

\* a pointer-move frame with a plane hit would read the slots (the guard of
\* onPointerMove and its mode branches)
MoveReadsSlots ==
    /\ Len(objects) > 0 /\ axis # Null /\ dragging
    /\ mode \in {TRANSLATE, ROTATE, SCALE}

\* a pointer-up would read the slots (the mode branches of onPointerUp)
CommitReadsSlots ==
    /\ Len(objects) > 0 /\ editing
    /\ mode \in {TRANSLATE, ROTATE, SCALE}

\* C20: whenever the drag handling or the commit on release would read the
\* slot of index i, the slot was written by the pointer-down that began the
\* current drag, from the object attached at index i now.
C20_SlotsNeverStale ==
    (MoveReadsSlots \/ CommitReadsSlots) =>
        \A i \in 1..Len(objects) :
            /\ attributes[i].fresh
            /\ attributes[i].from = objects[i]

\* the fields of a slot that the loop of onPointerDown writes
SnapshotFields(a) ==
    <<a.parentRotationMatrix, a.parentScale, a.worldRotationMatrix,
      a.oldPosition, a.oldScale, a.oldQuaternion, a.oldRotationMatrix>>

\* the existing slots are in s as they are now
KeepsSlots(s) ==
    \A i \in 1..Len(attributes) : s.attributes[i] = attributes[i]

\* the snapshotted fields of the existing slots are in s as they are now
KeepsSnapshotFields(s) ==
    \A i \in 1..Len(attributes) :
        SnapshotFields(s.attributes[i]) = SnapshotFields(attributes[i])

\* the frames of update() without a press
FramesWithoutPress == {f \in Inputs(gizmo) : ~f.pressed}

\* C21 as stated: nothing but the pointer-down handling (attach, clear,
\* setMode, updatePose, the hover, drag and pointer-up handlers, a frame
\* without a press) writes a field of an existing snapshot slot.
C21_SlotsWrittenAtPointerDownOnly ==
    /\ \A list \in Lists : \A s \in {Attach(St, list)} : KeepsSlots(s)
    /\ \A s \in {Clear(St)} : KeepsSlots(s)
    /\ \A s \in {UpdatePose(St)} : KeepsSlots(s)
    /\ \A s \in {OnPointerUp(St)} : KeepsSlots(s)
    /\ \A m \in Modes : \A s \in {SetMode(St, m)} : KeepsSlots(s)
    /\ \A pick \in PickerNames(gizmo.type) \cup {Null} :
           \A s \in {OnPointerHover(St, pick)} : KeepsSlots(s)
    /\ \A hit \in Points \cup {Miss} : \A s \in {OnPointerMove(St, hit)} : KeepsSlots(s)
    /\ \A in \in FramesWithoutPress : \A s \in {Update(St, in)} : KeepsSlots(s)

\* C21, amended: the fields snapshotted at pointer-down (parent rotation and
\* scale, world rotation matrix, old position, scale, quaternion and rotation
\* matrix) of the existing slots are written by the pointer-down handling
\* only; updatePose rewrites worldPosition and worldRotation of the slots of
\* the attached objects from their current world matrices.
C21_SnapshotFieldsWrittenAtPointerDownOnly ==
    /\ \A list \in Lists : \A s \in {Attach(St, list)} : KeepsSnapshotFields(s)
    /\ \A s \in {Clear(St)} : KeepsSnapshotFields(s)
    /\ \A s \in {OnPointerUp(St)} : KeepsSnapshotFields(s)
    /\ \A m \in Modes : \A s \in {SetMode(St, m)} : KeepsSnapshotFields(s)
    /\ \A pick \in PickerNames(gizmo.type) \cup {Null} :
           \A s \in {OnPointerHover(St, pick)} : KeepsSnapshotFields(s)
    /\ \A hit \in Points \cup {Miss} : \A s \in {OnPointerMove(St, hit)} : KeepsSnapshotFields(s)
    /\ \A in \in FramesWithoutPress : \A s \in {Update(St, in)} : KeepsSnapshotFields(s)
    /\ \A s \in {UpdatePose(St)} :
           /\ KeepsSnapshotFields(s)
           /\ (Len(objects) > 0 /\ mode # NONE) =>
                  \A i \in 1..Len(objects) :
                      /\ s.attributes[i].worldPosition = WorldPosition(scene, objects[i])
                      /\ s.attributes[i].worldRotation = WorldRotation(scene, objects[i])

\* a drag is going on whose snapshot differs from the objects as they are now
C21_Witness ==
    /\ Anchored
    /\ attributes[1].oldScale = One3
    /\ scene[objects[1]].position # attributes[1].oldPosition
    /\ attributes[1].worldPosition = WorldPosition(scene, objects[1])

\* what the raycast against the pickers can give, whichever gizmo they
\* belong to
AnyPicks == UNION {PickerNames(t) : t \in {"base", TRANSLATE, ROTATE, SCALE}} \cup {Null}

\* the guard of onPointerHover and onPointerDown
PickingOff == Len(objects) = 0 \/ dragging \/ mode = NONE

\* s is the state as it is now, but for the log of the calls
Untouched(s) == [s EXCEPT !.calls = <<>>] = St

\* C22: with an empty selection, a drag in progress or the mode NONE, the
\* hover and the pointer-down handling change nothing: not the axis, editing,
\* dragging, the active plane, the drag anchor or a snapshot slot.
C22_PickingGuard ==
    PickingOff =>
        \A pick \in AnyPicks :
            /\ \A s \in {OnPointerHover(St, pick)} : Untouched(s)
            /\ \A hit \in Points \cup {Miss} :
                   \A s \in {OnPointerDown(St, pick, hit)} : Untouched(s)

\* a drag is in progress on one picker and the gizmo has another picker the
\* pointer could pass over or press
C22_Witness ==
    /\ Len(objects) > 0 /\ mode # NONE
    /\ dragging /\ editing /\ axis # Null
    /\ PickerNames(gizmo.type) \ {axis} # {}

\* the guard of onPointerMove
DragOff == Len(objects) = 0 \/ axis = Null \/ ~dragging \/ mode = NONE

\* the frames in which the pointer moved and its ray missed the plane
MissedFrames ==
    {in \in Inputs(gizmo) : in.moved /\ ~in.pressed /\ ~in.released /\ in.hit = Miss}

\* C23: the drag handling changes no object when the selection is empty, the
\* axis is null, no drag is in progress, the mode is NONE or the ray misses
\* the plane, and a frame with a miss leaves no trace: the frame with a plane
\* hit after it gives the transforms it gives without the missed frame.
C23_MissedFrameDropped ==
    /\ DragOff => \A hit \in Points \cup {Miss} :
                      \A s \in {OnPointerMove(St, hit)} : Untouched(s)
    /\ \A s \in {OnPointerMove(St, Miss)} : Untouched(s)
    /\ \A missed \in {{Update(St, f1) : f1 \in MissedFrames}} :
           /\ \A s1 \in missed : s1.scene = scene
           /\ ~DragOff =>
                  \A f2 \in DragFrames : \A sc \in {Update(St, f2).scene} :
                      \A s1 \in missed : Update(s1, f2).scene = sc

\* a drag is in progress and a frame with a plane hit changes an object
C23_Witness ==
    /\ ~DragOff
    /\ mode \in {TRANSLATE, ROTATE, SCALE}
    /\ \E f2 \in DragFrames : Update(St, f2).scene # scene

\* C24: in SCALE mode a drag frame with a plane hit ends, and has applied the
\* scale computation of the pass of index i to every attached object i, from
\* the slot of index i: no object is left out.
C24_EveryObjectScaledOnce ==
    (mode = SCALE /\ ~DragOff) =>
        \A f \in DragFrames : \A s \in {Update(St, f)} :
            /\ ~s.hung
            /\ \A i \in 1..Len(objects) :
                   s.scene[objects[i]].scale =
                       ScaleStep(St, i, f.hit).scene[objects[i]].scale

\* C25: in TRANSLATE mode, snap off, a drag frame leaves every attached
\* object i where the pass of index i puts it: at its old position plus the
\* drag delta scaled and turned with the slot of index i, whatever the other
\* attached objects and their order.
C25_OwnDisplacement ==
    (mode = TRANSLATE /\ ~snap /\ ~DragOff) =>
        \A f \in DragFrames : \A s \in {Update(St, f)} :
            \A i \in 1..Len(objects) :
                s.scene[objects[i]].position =
                    TranslateStep(St, i, f.hit).scene[objects[i]].position

\* the children whose material has a highlight method: the meshes of the
\* handles and of the pickers (the planes share a plain MeshBasicMaterial, the
\* groups have no material)
HasHighlight(child) == child[1] \in {"handles", "pickers"}

\* C26: highlight(axis) sets the highlight state of every child with a
\* highlightable material to true exactly when the name of the child is the
\* axis token, character for character: all are false for the null axis, and
\* for XY neither X nor Y is highlighted.
C26_HighlightExactName ==
    \A ax \in AnyPicks : \A g \in {GizmoHighlight(gizmo, ax)} :
        \A child \in {c \in GizmoChildren(gizmo.type) : HasHighlight(c)} :
            /\ ChildHighlight(g, child[2]) <=> (child[2] = ax)
            /\ ax = Null => ~ChildHighlight(g, child[2])

\* updatePose has highlighted XY on a gizmo that has a child named X too
C26_Witness ==
    /\ gizmo.highlighted
    /\ gizmo.highlightAxis = "XY"
    /\ <<"handles", "X">> \in GizmoChildren(gizmo.type)
    /\ ChildHighlight(gizmo, "XY")
    /\ ~ChildHighlight(gizmo, "X")

\* the Euler rotations updatePose passes to update(): none, or the world
\* rotation of the first attached object
Rotations == {Identity3, RotZ180}

\* C27 as stated: update(rotation, eye) gives the look-at orientation to every
\* child whose name contains E, the Euler rotation to every child whose name
\* contains X, Y or Z, and leaves the other children as they are.
C27_UpdateByLetters ==
    \A rotation \in Rotations : \A g \in {GizmoUpdate(gizmo, rotation, Eye)} :
        \A child \in GizmoChildren(gizmo.type) :
            LET name == child[2] IN
            /\ Has(name, "E") =>
                   ChildOrientation(g, name) = [kind |-> "lookAt", value |-> Eye]
            /\ (Has(name, "X") \/ Has(name, "Y") \/ Has(name, "Z")) =>
                   ChildOrientation(g, name) = [kind |-> "euler", value |-> rotation]
            /\ ~(Has(name, "E") \/ Has(name, "X") \/ Has(name, "Y") \/ Has(name, "Z")) =>
                   ChildOrientation(g, name) = ChildOrientation(gizmo, name)

\* C27, amended: the Euler rotation goes to the children whose name contains
\* X, Y or Z and no E; a name with an E (E, XYZE) gets the look-at orientation.
C27_UpdateLetterEFirst ==
    \A rotation \in Rotations : \A g \in {GizmoUpdate(gizmo, rotation, Eye)} :
        \A child \in GizmoChildren(gizmo.type) :
            LET name == child[2] IN
            /\ Has(name, "E") =>
                   ChildOrientation(g, name) = [kind |-> "lookAt", value |-> Eye]
            /\ (~Has(name, "E") /\ (Has(name, "X") \/ Has(name, "Y") \/ Has(name, "Z"))) =>
                   ChildOrientation(g, name) = [kind |-> "euler", value |-> rotation]
            /\ ~(Has(name, "E") \/ Has(name, "X") \/ Has(name, "Y") \/ Has(name, "Z")) =>
                   ChildOrientation(g, name) = ChildOrientation(gizmo, name)

\* updatePose has passed the rotation of a turned object to update()
C27_Witness ==
    /\ gizmo.updated
    /\ gizmo.rotation = RotZ180
    /\ ChildOrientation(gizmo, "XYZE") = [kind |-> "lookAt", value |-> Eye]
    /\ ChildOrientation(gizmo, "XY") = [kind |-> "euler", value |-> RotZ180]

\* C28: in every reachable state the active gizmo is the variant of the mode:
\* the translate, rotate or scale gizmo in these modes, the base gizmo in
\* NONE and in a mode the controls do not know.
C28_GizmoMatchesMode ==
    gizmo.type = (IF mode \in {TRANSLATE, ROTATE, SCALE} THEN mode ELSE "base")

\* C29: after every operation the controls are visible only with objects
\* attached, and with objects attached they are visible unless the mode is
\* NONE.
C29_VisibleIffSelection ==
    /\ visible => Len(objects) > 0
    /\ (mode # NONE /\ Len(objects) > 0) => visible

\* objects were attached in the mode NONE, where updatePose does not show the
\* controls
C29_Witness ==
    /\ mode = NONE
    /\ Len(objects) > 0
    /\ ~visible

\* C30: after every operation an edit in progress is a drag in progress, and
\* with nothing attached no axis is picked.
C30_EditingImpliesDragging ==
    /\ editing => dragging
    /\ Len(objects) = 0 => axis = Null

\* the selection was emptied in the middle of an edit: the axis is dropped,
\* the edit and the drag go on
C30_Witness ==
    /\ Len(objects) = 0
    /\ editing /\ dragging
    /\ axis = Null

\* C31: a frame changes an object of the scene only as part of an edit:
\* editing is true when the frame ends, so that the next pointer-up submits a
\* bundle for the change.
C31_DragOnlyWhileEditing ==
    \A f \in Frames : \A s \in {Update(St, f)} :
        s.scene # scene => s.editing

\* the value of a kind of component of the object o in the scene sc
ComponentOf(sc, o, kind) ==
    IF kind = "position" THEN sc[o].position
    ELSE IF kind = "scale" THEN sc[o].scale
    ELSE sc[o].quaternion

\* the value of a kind of component in the snapshot slot a
OldComponentOf(a, kind) ==
    IF kind = "position" THEN a.oldPosition
    ELSE IF kind = "scale" THEN a.oldScale
    ELSE a.oldQuaternion

\* C32: the pointer-up that ends an edit submits a record for every kind of
\* component (position, scale, quaternion) of an attached object that differs
\* from the snapshot taken when the edit began, whatever setMode calls were
\* made in between.
C32_ModifiedKindRecorded ==
    (editing /\ Anchored) =>
        \A s \in {OnPointerUp(St)} :
            \A i \in 1..Len(objects) : \A kind \in {"position", "scale", "quaternion"} :
                ComponentOf(scene, objects[i], kind) # OldComponentOf(attributes[i], kind) =>
                    \E b \in 1..Len(s.submitted) : \E k \in 1..Len(s.submitted[b]) :
                        s.submitted[b][k].target = <<objects[i], kind>>

\* C33: selectTool(tool) leaves selected the toggle of the tool and no other
\* (none when the tool has no toggle) and passes the tool on to the parent
\* once; after any calls the selected toggle is that of the last call.
C33_OneToolSelected ==
    /\ \A tool \in Tools : \A sb \in {SelectTool(sidebar, tool)} :
           /\ Selected(sb) = {tool} \cap ToggleTools
           /\ Cardinality(Selected(sb)) <= 1
           /\ sb.forwarded = Append(sidebar.forwarded, tool)
    /\ Len(sidebar.forwarded) > 0 =>
           Selected(sidebar) = {sidebar.forwarded[Len(sidebar.forwarded)]} \cap ToggleTools

\* three calls, the last with another tool than the one before it
C33_Witness ==
    /\ Len(sidebar.forwarded) = 3
    /\ sidebar.forwarded[2] = "ROTATE"
    /\ sidebar.forwarded[3] = "MOVE"
    /\ Selected(sidebar) = {"MOVE"}

====
